---- MODULE Spec2Model ----
(***************************************************************************)
(* Instagram-to-event import pipeline of popmap                            *)
(* (backend/apps/instagram): InstagramImportService.import_posts, the      *)
(* scraper client, the LLM event extractor, the InstagramPostLog ledger    *)
(* and the draft Event rows.  Several import runs execute concurrently;    *)
(* every database statement and every outbound call is one atomic step.    *)
(* Spec: concurrent runs; SpecOne: one run; SpecView: one POST /import;    *)
(* SpecScraper: the scraper client called directly; SpecDraft: the fields  *)
(* _create_draft_event gives a draft.                                      *)
(***************************************************************************)
EXTENDS Integers, Sequences, FiniteSets, TLC

(* ------------------------------ bounds --------------------------------- *)
NumRuns    == 2      \* concurrent executions of import_posts
NumTenants == 2      \* Business rows
NumPostIds == 2      \* distinct Instagram post ids
MaxPosts   == 2      \* longest upstream feed of one handle
MaxFeed    == 3      \* longest 'data' list of a payload given to the scraper alone
MaxLimit   == 2      \* largest limit given to the scraper alone
MaxVenues  == 2
MaxRows    == 52     \* ledger rows of one tenant
MaxOther   == 2      \* ledger rows of the other tenant      \* most Venue rows of one business

Runs    == 1..NumRuns
Tenants == 1..NumTenants
PostIds == 1..NumPostIds

(* ----------------------------- constants ------------------------------- *)
\* Confidences are floats; they are kept here in units of 1e-5.
Threshold == 60000           \* EventExtractor.confidence_threshold = 0.6
HistoryLimit == 50           \* the slice [:50] of the history view
Limit     == 20              \* import_posts(business, limit=20)
NaN       == -1              \* the float nan (json.loads / float() produce it)
None      == -1              \* Python's None, where a date or a time is expected

NoError == "None"
PremiumError == "Premium subscription required for Instagram import"
HandleError  == "No Instagram handle configured"

(* ----------------------------- float order ----------------------------- *)
\* IEEE comparison: every ordered comparison with nan is false.
FloatLt(a, b) == a # NaN /\ b # NaN /\ a < b
FloatGe(a, b) == a # NaN /\ b # NaN /\ a >= b

(* ------------------------------ sequences ------------------------------ *)
SeqsUpTo(S, n) == UNION {[1..k -> S] : k \in 0..n}

Take(s, n) == SubSeq(s, 1, IF Len(s) < n THEN Len(s) ELSE n)

Count(s, v) == Cardinality({i \in DOMAIN s : s[i] = v})

Distinct(s) == \A i, j \in DOMAIN s : s[i] = s[j] => i = j

(* ------------------------------- strings ------------------------------- *)
\* Strings are sequences of characters over the small alphabet "#", "p", "m",
\* "x" and the upper-case forms "P", "M", "X".

\* str.lower(), character by character
lower_identity(s) == s

lower(s) ==
    [i \in DOMAIN s |->
        CASE s[i] = "P" -> "p"
          [] s[i] = "M" -> "m"
          [] s[i] = "X" -> "x"
          [] OTHER      -> s[i]]

\* needle in haystack
Contains(haystack, needle) ==
    \E i \in 0..(Len(haystack) - Len(needle)) :
        SubSeq(haystack, i + 1, i + Len(needle)) = needle

(* ------------------------------ scraper -------------------------------- *)
\* What the HTTP GET of the scraper can come back with.
HttpResponses == {[kind |-> "network_error", status |-> 0]}
                 \cup {[kind |-> "status", status |-> s] : s \in {200, 404, 429, 500}}

Returned(v) == [raised |-> FALSE, value |-> v, cls |-> "", msg |-> ""]
Raised(c, m) == [raised |-> TRUE, value |-> << >>, cls |-> c, msg |-> m]

\* hashtag='popmap' of import_posts, written "pm"
HASHTAG == <<"p", "m">>

\* JSON value under the key 'caption' of one post of the payload
StringCaption(s) == [t |-> "string", s |-> s]
CaptionTexts == {<<"#", "p", "m">>,                \* "#popmap"
                 <<"#", "P", "m">>,                \* "#PopMap"
                 <<"x", "#", "P", "M", "x">>,      \* "x#POPMAPx"
                 <<"p", "m">>,                     \* "popmap", no '#'
                 <<"#", "p">>}                     \* "#pop"
CaptionValues == {[t |-> "missing", s |-> << >>],
                  [t |-> "null", s |-> << >>],
                  [t |-> "number", s |-> << >>]}
                 \cup {StringCaption(s) : s \in CaptionTexts}

\* one element of the payload's 'data' list
PostData(id, caption) == [id |-> id, caption |-> caption]

\* Body of a 200 answer.  shape:
\*   "object"          a JSON object whose 'data' is the list of posts
\*   "array"           valid JSON, a list instead of an object
\*   "data_null"       {"data": null}
\*   "not_json"        response.json() raises requests' JSONDecodeError,
\*                     a RequestException (requests >= 2.27)
\*   "not_json_legacy" response.json() raises a plain ValueError (older requests)
Payload(shape, data) == [shape |-> shape, data |-> data]
BrokenPayloads ==
    {Payload(sh, << >>) : sh \in {"array", "data_null", "not_json", "not_json_legacy"}}

\* InstagramPost(post_id=..., caption=caption, ...)
InstagramPost(post) == [post_id |-> post.id, caption |-> post.caption.s]

\* caption = post.get('caption', '') or ''
\* if f'#{hashtag_lower}' in caption.lower()
Matches(caption, hashtag) ==
    Contains(lower(caption.s), <<"#">> \o lower(hashtag))

\* if len(posts) >= limit: break
Full_never(acc, limit) == FALSE

Full(acc, limit) == Len(acc) >= limit

\* the for loop over posts_data[:limit * 2]
RECURSIVE Scan(_, _, _, _)
Scan(data, hashtag, limit, acc) ==
    IF data = << >>
      THEN Returned(acc)
    ELSE IF Head(data).caption.t = "number"
      THEN Raised("AttributeError", "'int' object has no attribute 'lower'")
    ELSE LET acc2 == IF Matches(Head(data).caption, hashtag)
                       THEN Append(acc, InstagramPost(Head(data)))
                       ELSE acc
         IN  IF Full(acc2, limit)
               THEN Returned(acc2)
               ELSE Scan(Tail(data), hashtag, limit, acc2)

\* data = response.json(); posts_data = data.get('data', []); the loop
ReadPayload(body, hashtag, limit) ==
    CASE body.shape = "not_json"        -> Raised("RequestException", "Expecting value")
      [] body.shape = "not_json_legacy" -> Raised("ValueError", "Expecting value")
      [] body.shape = "array"           ->
             Raised("AttributeError", "'list' object has no attribute 'get'")
      [] body.shape = "data_null"       ->
             Raised("TypeError", "'NoneType' object is not subscriptable")
      [] OTHER -> Scan(Take(body.data, limit * 2), hashtag, limit, << >>)

\* the try block: the GET, the status checks, the payload, and
\* except requests.RequestException -> InstagramServiceError("Network error: ...")
Request(http, body, hashtag, limit) ==
    IF http.kind = "network_error"
      THEN Raised("InstagramServiceError", "Network error: <e>")
    ELSE IF http.status = 429
      THEN Raised("RateLimitError", "Rate limited by Instagram API")
    ELSE IF http.status = 404
      THEN Raised("UserNotFoundError", "User @<username> not found")
    ELSE IF http.status # 200
      THEN Raised("InstagramServiceError", "API error: <status_code>")
    ELSE LET r == ReadPayload(body, hashtag, limit)
         IN  IF r.raised /\ r.cls = "RequestException"
               THEN Raised("InstagramServiceError", "Network error: <e>")
               ELSE r

fetch_nokeycheck(api_key, http, body, hashtag, limit) ==
    Request(http, body, hashtag, limit)

\* ScraperInstagramService.fetch_user_posts_by_hashtag: api_key is the
\* configured RAPIDAPI_KEY (TRUE when non-empty), http the answer to the GET,
\* body the payload of a 200 answer.
fetch_user_posts_by_hashtag(api_key, http, body, hashtag, limit) ==
    IF ~api_key
      THEN Raised("InstagramServiceError", "RAPIDAPI_KEY not configured")
      ELSE Request(http, body, hashtag, limit)

\* ScraperInstagramService.health_check
health_check(api_key, http) ==
    IF ~api_key THEN FALSE
    ELSE IF http.kind = "network_error" THEN FALSE      \* except Exception
    ELSE http.status = 200

\* requests.get calls issued by either method: none when the key check fails
Requests(api_key) == IF ~api_key THEN 0 ELSE 1

\* class hierarchy of services/base.py
IsInstagramServiceError_exact(cls) == cls = "InstagramServiceError"

IsInstagramServiceError(cls) ==
    cls \in {"InstagramServiceError", "RateLimitError", "UserNotFoundError"}

(* ----------------------------- extractor ------------------------------- *)
\* ExtractedEvent(is_event, confidence, start_date, start_time, end_date,
\* end_time): dates are day numbers, times minutes after midnight
DatedEvent(e, c, sd, st, ed, et) ==
    [is_event |-> e, confidence |-> c, start_date |-> sd, start_time |-> st,
     end_date |-> ed, end_time |-> et]

\* ExtractedEvent(is_event, confidence); the optional fields stay None.
ExtractedEvent(e, c) == DatedEvent(e, c, None, None, None, None)
NoExtracted == ExtractedEvent(FALSE, 0)        \* local not bound yet

\* JSON value found under the key "confidence" of the model's answer.
ConfidenceValues ==
    {[t |-> "number", v |-> c] : c \in {0, Threshold - 1, Threshold, NaN}}
    \cup {[t |-> "numeric_string", v |-> 90000],   \* "0.9"
          [t |-> "bad_string", v |-> 0],           \* "high"
          [t |-> "null", v |-> 0],
          [t |-> "missing", v |-> 0]}

\* Text of the model's answer: an optional ``` fence around a body.
\*   fence: "none", "newline" (```json\n...```), "no_newline" (```{...}```)
\*   body : "non_json", "truncated", "array" (valid JSON, not an object),
\*          "object" (a JSON object with the two fields below)
\* JSON value under 'start_date', 'start_time', 'end_date' or 'end_time':
\*   "null"       null, or the key is missing
\*   "iso"        a string in ISO format, v the date or time it denotes
\*   "bad_string" a string that is not in ISO format ("next Saturday")
\*   "number"     a number other than 0 (20240115)
WhenJson(values) ==
    {[t |-> k, v |-> 0] : k \in {"null", "bad_string", "number"}}
    \cup {[t |-> "iso", v |-> x] : x \in values}

NullWhen == [start_date |-> [t |-> "null", v |-> 0], start_time |-> [t |-> "null", v |-> 0],
             end_date |-> [t |-> "null", v |-> 0], end_time |-> [t |-> "null", v |-> 0]]

\* a JSON object with is_event, confidence and the four date and time keys
DatedText(e, c, w) ==
    [fence |-> "none", body |-> "object", is_event |-> e, confidence |-> c, when |-> w]

ObjectText(f, e, c) ==
    [fence |-> f, body |-> "object", is_event |-> e, confidence |-> c, when |-> NullWhen]
BrokenText(f, b) ==
    [fence |-> f, body |-> b, is_event |-> FALSE, confidence |-> [t |-> "missing", v |-> 0],
     when |-> NullWhen]

ResponseTexts ==
    {ObjectText("none", TRUE, c) : c \in ConfidenceValues}
    \cup {ObjectText("none", FALSE, [t |-> "number", v |-> c]) : c \in {0, Threshold}}
    \cup {ObjectText("newline", TRUE, [t |-> "number", v |-> Threshold]),
          ObjectText("no_newline", TRUE, [t |-> "number", v |-> Threshold])}
    \cup {BrokenText("none", b) : b \in {"non_json", "truncated", "array"}}
    \cup {BrokenText("newline", "truncated")}

\* float(data.get('confidence', 0.0))
float(c) ==
    CASE c.t = "missing"        -> Returned(0)
      [] c.t = "number"         -> Returned(c.v)
      [] c.t = "numeric_string" -> Returned(c.v)
      [] c.t = "bad_string"     -> Raised("ValueError", "could not convert string to float")
      [] c.t = "null"           -> Raised("TypeError", "float() argument must be a string or a real number")

\* date.fromisoformat / time.fromisoformat of a truthy JSON value
fromisoformat(j) ==
    CASE j.t = "iso"        -> Returned(j.v)
      [] j.t = "bad_string" -> Raised("ValueError", "Invalid isoformat string")
      [] OTHER              -> Raised("TypeError", "fromisoformat: argument must be str")

\* EventExtractor._parse_date: if not date_str: return None;
\* try: return date.fromisoformat(date_str) except ValueError: return None
_parse_date(j) ==
    IF j.t = "null" THEN Returned(None)
    ELSE IF fromisoformat(j).raised /\ fromisoformat(j).cls = "ValueError"
      THEN Returned(None)
      ELSE fromisoformat(j)

\* EventExtractor._parse_time, the same for times
_parse_time(j) ==
    IF j.t = "null" THEN Returned(None)
    ELSE IF fromisoformat(j).raised /\ fromisoformat(j).cls = "ValueError"
      THEN Returned(None)
      ELSE fromisoformat(j)

\* the four calls that build the date and time arguments of ExtractedEvent:
\* the first one that raises ends the construction
ParseWhen(w) ==
    LET sd == _parse_date(w.start_date)
        st == _parse_time(w.start_time)
        ed == _parse_date(w.end_date)
        et == _parse_time(w.end_time)
    IN  IF sd.raised THEN sd
        ELSE IF st.raised THEN st
        ELSE IF ed.raised THEN ed
        ELSE IF et.raised THEN et
        ELSE Returned([start_date |-> sd.value, start_time |-> st.value,
                       end_date |-> ed.value, end_time |-> et.value])

\* body of the try block of EventExtractor._parse_response
parse_body(text) ==
    IF text.fence = "no_newline"
      THEN Raised("IndexError", "list index out of range")       \* split('\n', 1)[1]
    ELSE IF text.body \in {"non_json", "truncated"}
      THEN Raised("JSONDecodeError", "Expecting value")           \* json.loads
    ELSE IF text.body = "array"
      THEN Raised("AttributeError", "'list' object has no attribute 'get'")
    ELSE IF float(text.confidence).raised
      THEN float(text.confidence)
    ELSE IF ParseWhen(text.when).raised
      THEN ParseWhen(text.when)
    ELSE LET w == ParseWhen(text.when).value
         IN  Returned(DatedEvent(text.is_event, float(text.confidence).value,
                                 w.start_date, w.start_time, w.end_date, w.end_time))

\* except (json.JSONDecodeError, KeyError, ValueError)
ParseCaught == {"JSONDecodeError", "KeyError", "ValueError"}

\* EventExtractor._parse_response
_parse_response(text) ==
    LET r == parse_body(text)
    IN  IF r.raised /\ r.cls \in ParseCaught
          THEN Returned(ExtractedEvent(FALSE, 0))
          ELSE r

\* Outcome of client.messages.create(...): the call fails or answers a text.
Answer(t) == [call |-> "ok", text |-> t]
LLMOutcomes == {[call |-> "api_error", text |-> BrokenText("none", "non_json")]}
               \cup {Answer(t) : t \in ResponseTexts}

\* The answers drawn while runs interleave: one per distinct result of extract.
RaceLLMOutcomes ==
    {Answer(ObjectText("none", TRUE, [t |-> "number", v |-> c])) :
         c \in {Threshold - 1, Threshold, NaN}}
    \cup {Answer(ObjectText("none", TRUE, [t |-> "numeric_string", v |-> 90000])),
          Answer(ObjectText("none", FALSE, [t |-> "number", v |-> Threshold])),
          Answer(BrokenText("none", "truncated"))}

\* What reading the tenant context answers: list(business.categories
\* .values_list('slug', flat=True)) returns ("ok") or raises ("error").
ContextOutcomes == {"ok", "error"}

extract_noexcept(api_key, context, llm) ==
    IF ~api_key
      THEN Returned(ExtractedEvent(FALSE, 0))
    ELSE IF context = "error"
      THEN Raised("OperationalError", "categories query failed")
    ELSE IF llm.call = "api_error"
      THEN Raised("APIError", "api error")
    ELSE _parse_response(llm.text)

\* EventExtractor.extract: api_key is the configured ANTHROPIC_API_KEY
\* (TRUE when non-empty), context the outcome of the categories query (made
\* before the try block), llm the outcome of the model call.
extract(api_key, context, llm) ==
    IF ~api_key
      THEN Returned(ExtractedEvent(FALSE, 0))
    ELSE IF context = "error"
      THEN Raised("OperationalError", "categories query failed")
    ELSE LET r == IF llm.call = "api_error"
                    THEN Raised("APIError", "api error")
                    ELSE _parse_response(llm.text)
         IN  IF r.raised                       \* except Exception
               THEN Returned(ExtractedEvent(FALSE, 0))
               ELSE r

(* ------------------------------- state --------------------------------- *)
VARIABLES
    upstream,      \* payload the social source answers for the account the
                   \* tenants' handles name (it does not change between runs)
    config,        \* deployment settings read with decouple.config(...)
    events,        \* Event rows
    ledger,        \* InstagramPostLog rows
    next_id,       \* next primary key of an Event row
    pc,            \* position of each run inside import_posts
    business,      \* import_posts argument: the tenant of the run
    posts,         \* local: posts returned by the fetch
    existing_ids,  \* local: ledger snapshot taken before the loop
    idx,           \* local: position of the for loop (1-based)
    extracted,     \* local: ExtractedEvent of the current post
    response,      \* outcome of the model call for the current post
    event,         \* local: id of the Event created for the current post
    result,        \* local: the ImportResult being built / returned
    outcome,       \* history: what happened to each post processed so far
    calls,         \* history: outbound calls and writes issued by the run
    seen,          \* history: what the gate checks and the fetch were answered
    pred,          \* history: runs that had returned when this run began
    request,       \* POST /import that started the run, and what the view saw
    reply,         \* HTTP response of the view to that request
    args,          \* arguments of a direct call of a scraper method
    ret            \* what that call returned or raised, and the requests it issued

vars == <<upstream, config, events, ledger, next_id, pc, business, posts,
          existing_ids, idx, extracted, response, event, result, outcome,
          calls, seen, pred, request, reply, args, ret>>

\* ImportResult()
ImportResult == [imported |-> 0, skipped_duplicate |-> 0, skipped_not_event |-> 0,
                 skipped_error |-> 0, draft_ids |-> << >>, error |-> NoError]

NoResponse == [call |-> "none", text |-> BrokenText("none", "non_json")]
NoCalls == [fetch |-> 0, extract |-> 0, event_create |-> 0, ledger_create |-> 0]

NoHttp == [kind |-> "none", status |-> 0]
NoSeen == [premium |-> TRUE, handle |-> TRUE, http |-> NoHttp]

\* Event row written by _create_draft_event; post is the post it was made
\* from, image "saved" when an image was attached, "failed" when the attempt
\* failed, "none" when none was made
EventRow(id, b, st, p, img) ==
    [id |-> id, host_business |-> b, status |-> st, post |-> p, image |-> img]

\* InstagramPostLog row; imported_at (auto_now_add) is the time of the INSERT
LogRow(b, p, e, at) ==
    [business |-> b, instagram_post_id |-> p, event |-> e, imported_at |-> at]

\* the clock read by auto_now_add: later than every row written so far
Now(rows) == Cardinality(rows) + 1

\* Meta.unique_together = ['business', 'instagram_post_id']: an INSERT of
\* (b, p) is refused when a row with that pair exists
UniqueViolation_off(rows, b, p) == FALSE

UniqueViolation(rows, b, p) ==
    \E l \in rows : l.business = b /\ l.instagram_post_id = p

\* no POST /import was received: the run is a direct call of import_posts
NoRequest == [via_view |-> FALSE, found |-> TRUE, premium |-> TRUE, handle |-> TRUE]
NoReply == [status |-> 0, error |-> NoError]

\* nothing has run yet: empty tables, every run at the entry of import_posts
Constructed ==
    /\ events = {}
    /\ ledger = {}
    /\ next_id = 1
    /\ pc = [r \in Runs |-> "start"]
    /\ business = [r \in Runs |-> 1]
    /\ posts = [r \in Runs |-> << >>]
    /\ existing_ids = [r \in Runs |-> {}]
    /\ idx = [r \in Runs |-> 1]
    /\ extracted = [r \in Runs |-> NoExtracted]
    /\ response = [r \in Runs |-> NoResponse]
    /\ event = [r \in Runs |-> 0]
    /\ result = [r \in Runs |-> ImportResult]
    /\ outcome = [r \in Runs |-> << >>]
    /\ calls = [r \in Runs |-> NoCalls]
    /\ seen = [r \in Runs |-> NoSeen]
    /\ pred = [r \in Runs |-> {}]
    /\ request = [r \in Runs |-> NoRequest]
    /\ reply = [r \in Runs |-> NoReply]

\* the payload of an account whose posts all carry the hashtag
TaggedFeed(ids) ==
    Payload("object",
            [i \in DOMAIN ids |-> PostData(ids[i], StringCaption(<<"#", "p", "m">>))])

NoArgs == [hashtag |-> << >>, limit |-> 0, http |-> [kind |-> "none", status |-> 0]]
NoRet == [fn |-> "none", out |-> Returned(<< >>), requests |-> 0]

Init ==
    /\ upstream \in {TaggedFeed(ids) : ids \in SeqsUpTo(PostIds, MaxPosts)}
                    \cup {Payload("array", << >>)}
    /\ config \in [RAPIDAPI_KEY : BOOLEAN, ANTHROPIC_API_KEY : BOOLEAN]
    /\ Constructed
    /\ args = NoArgs
    /\ ret = NoRet

Bump(rec, f) == [rec EXCEPT ![f] = @ + 1]

\* end of one iteration of the for loop: note what happened to the post,
\* drop the iteration's locals, move to the next post
NextPost(r, what) ==
    /\ outcome' = [outcome EXCEPT ![r] = Append(@, what)]
    /\ idx' = [idx EXCEPT ![r] = @ + 1]
    /\ extracted' = [extracted EXCEPT ![r] = NoExtracted]
    /\ response' = [response EXCEPT ![r] = NoResponse]
    /\ event' = [event EXCEPT ![r] = 0]
    /\ pc' = [pc EXCEPT ![r] = "loop"]

\* The two checks at the head of import_posts: the error the run returns
\* with, or NoError when both pass.
GateError_nohandle(premium, handle) ==
    IF ~premium THEN PremiumError ELSE NoError

GateError(premium, handle) ==
    IF ~premium THEN PremiumError
    ELSE IF ~handle THEN HandleError
    ELSE NoError

\* InstagramImportService() and the two gate checks of import_posts.
\* premium is the answer of business.can_use_premium_customization() (a query
\* of the subscriptions, made anew here), handle whether
\* business.instagram_handle is non-empty.  When the view made the call, the
\* business is the object the view looked up.
Gate(r) ==
    /\ pc[r] = "start"
    /\ \E b \in Tenants, premium \in BOOLEAN, handle \in BOOLEAN :
         /\ request[r].via_view => (b = business[r] /\ handle = request[r].handle)
         /\ business' = [business EXCEPT ![r] = b]
         /\ seen' = [seen EXCEPT ![r].premium = premium, ![r].handle = handle]
         /\ IF GateError(premium, handle) # NoError
              THEN /\ result' = [result EXCEPT ![r].error = GateError(premium, handle)]
                   /\ pc' = [pc EXCEPT ![r] = "done"]
              ELSE /\ result' = result
                   /\ pc' = [pc EXCEPT ![r] = "fetch"]
    /\ pred' = [pred EXCEPT ![r] = {q \in Runs : pc[q] = "done"}]
    /\ UNCHANGED <<request, reply, args, ret, upstream, config, events, ledger, next_id, posts, existing_ids, idx,
                   extracted, response, event, outcome, calls>>

\* try: posts = self.instagram_service.fetch_user_posts_by_hashtag(...)
\* except InstagramServiceError as e: result.error = str(e); return result
Fetch(r) ==
    /\ pc[r] = "fetch"
    /\ \E http \in HttpResponses :
         /\ LET f == fetch_user_posts_by_hashtag(config.RAPIDAPI_KEY, http,
                                              upstream, HASHTAG, Limit)
            IN  IF f.raised
                  THEN /\ IF IsInstagramServiceError(f.cls)
                            THEN /\ result' = [result EXCEPT ![r].error = f.msg]
                                 /\ pc' = [pc EXCEPT ![r] = "done"]
                            ELSE /\ result' = result
                                 /\ pc' = [pc EXCEPT ![r] = "raised"]
                       /\ posts' = posts
                  ELSE /\ posts' = [posts EXCEPT ![r] =
                                      [i \in DOMAIN f.value |-> f.value[i].post_id]]
                       /\ pc' = [pc EXCEPT ![r] = "snapshot"]
                       /\ result' = result
         /\ seen' = [seen EXCEPT ![r].http = http]
    /\ calls' = [calls EXCEPT ![r] = Bump(@, "fetch")]
    /\ UNCHANGED <<request, reply, args, ret, upstream, config, events, ledger, next_id, business, existing_ids,
                   idx, extracted, response, event, outcome, pred>>

\* set(InstagramPostLog.objects.filter(business=business)
\*     .values_list('instagram_post_id', flat=True))
ExistingIds_nofilter(rows, b) == {}

\* the same without filter(business=business)
ExistingIds_alltenants(rows, b) == {l.instagram_post_id : l \in rows}

ExistingIds(rows, b) ==
    {l.instagram_post_id : l \in {x \in rows : x.business = b}}

\* existing_ids = set(...): the ledger snapshot taken once, before the loop
Snapshot(r) ==
    /\ pc[r] = "snapshot"
    /\ existing_ids' = [existing_ids EXCEPT ![r] = ExistingIds(ledger, business[r])]
    /\ pc' = [pc EXCEPT ![r] = "loop"]
    /\ UNCHANGED <<request, reply, args, ret, upstream, config, events, ledger, next_id, business, posts, idx,
                   extracted, response, event, result, outcome, calls, seen, pred>>

\* for post in posts: if post.post_id in existing_ids: skipped_duplicate += 1
\* ...; return result once the posts are exhausted
Dedupe(r) ==
    /\ pc[r] = "loop"
    /\ IF idx[r] > Len(posts[r])
         THEN /\ pc' = [pc EXCEPT ![r] = "done"]
              /\ UNCHANGED <<result, outcome, idx, extracted, response, event>>
       ELSE IF posts[r][idx[r]] \in existing_ids[r]
         THEN /\ result' = [result EXCEPT ![r] = Bump(@, "skipped_duplicate")]
              /\ NextPost(r, "duplicate")
       ELSE /\ pc' = [pc EXCEPT ![r] = "extract"]
            /\ UNCHANGED <<result, outcome, idx, extracted, response, event>>
    /\ UNCHANGED <<request, reply, args, ret, upstream, config, events, ledger, next_id, business, posts,
                   existing_ids, calls, seen, pred>>

\* extracted = self.extractor.extract(post.caption, business)
Extract(r, outcomes) ==
    /\ pc[r] = "extract"
    /\ \E llm \in outcomes, context \in ContextOutcomes :
         LET x == extract(config.ANTHROPIC_API_KEY, context, llm)
         IN  /\ response' = [response EXCEPT ![r] =
                              IF config.ANTHROPIC_API_KEY /\ context = "ok"
                                THEN llm ELSE NoResponse]
             /\ IF x.raised
                  THEN /\ pc' = [pc EXCEPT ![r] = "raised"]
                       /\ extracted' = extracted
                  ELSE /\ pc' = [pc EXCEPT ![r] = "gate"]
                       /\ extracted' = [extracted EXCEPT ![r] = x.value]
    /\ calls' = [calls EXCEPT ![r] = Bump(@, "extract")]
    /\ UNCHANGED <<request, reply, args, ret, upstream, config, events, ledger, next_id, business, posts,
                   existing_ids, idx, event, result, outcome, seen, pred>>

\* if not extracted.is_event or
\*    extracted.confidence < self.extractor.confidence_threshold
Rejected(x, threshold) == ~x.is_event \/ FloatLt(x.confidence, threshold)

ConfidenceGate(r) ==
    /\ pc[r] = "gate"
    /\ IF Rejected(extracted[r], Threshold)
         THEN /\ result' = [result EXCEPT ![r] = Bump(@, "skipped_not_event")]
              /\ NextPost(r, "not_event")
         ELSE /\ pc' = [pc EXCEPT ![r] = "create"]
              /\ response' = [response EXCEPT ![r] = NoResponse]
              /\ UNCHANGED <<result, outcome, idx, extracted, event>>
    /\ UNCHANGED <<request, reply, args, ret, upstream, config, events, ledger, next_id, business, posts,
                   existing_ids, calls, seen, pred>>

\* except Exception as e: ...; result.skipped_error += 1
OnError_uncounted(res) == res

OnError_fatal(res) == [res EXCEPT !.skipped_error = @ + 1, !.error = "Import failed"]

OnError(res) == Bump(res, "skipped_error")

\* status passed to Event.objects.create by _create_draft_event
DraftStatus_default == "approved"

DraftStatus == "pending"

\* What becomes of the post's image:
\*   "no_url"     post.image_url is empty, nothing is attempted
\*   "saved"      the download answers 200 and event.image.save succeeds
\*   "timeout"    requests.get raises
\*   "non_200"    the download answers another status
\*   "save_error" event.image.save raises
ImageOutcomes == {"no_url", "saved", "timeout", "non_200", "save_error"}
RaceImageOutcomes == {"saved"}

\* InstagramImportService._attach_image: whether the image was saved
_attach_image(img) ==
    CASE img = "timeout"    -> Raised("Timeout", "Read timed out")
      [] img = "save_error" -> Raised("OSError", "save failed")
      [] img = "non_200"    -> Returned(FALSE)
      [] OTHER              -> Returned(TRUE)

AttachImage_noexcept(img) ==
    IF img = "no_url" THEN Returned("none")
    ELSE IF _attach_image(img).raised THEN _attach_image(img)
    ELSE Returned(IF _attach_image(img).value THEN "saved" ELSE "failed")

\* if post.image_url: try: self._attach_image(...) except Exception: print(...)
AttachImage(img) ==
    IF img = "no_url" THEN Returned("none")
    ELSE IF _attach_image(img).raised THEN Returned("failed")
    ELSE Returned(IF _attach_image(img).value THEN "saved" ELSE "failed")

\* event = self._create_draft_event(business, post, extracted)
\* result.draft_ids.append(event.id); result.imported += 1
\* fail: "create" - Event.objects.create raises, no row is written;
\*       "add"    - the row is written, event.businesses.add raises;
\*       "none"   - the row is written and the image step is reached.
\* Any exception lands in `except Exception`: skipped_error += 1.
CreateDraft(r, images) ==
    /\ pc[r] = "create"
    /\ \E fail \in {"none", "create", "add"}, img \in images :
         /\ IF fail = "create"
              THEN UNCHANGED <<events, next_id>>
              ELSE /\ events' = events \cup
                          {EventRow(next_id, business[r], DraftStatus, posts[r][idx[r]],
                                    IF fail = "add" THEN "none"
                                    ELSE IF AttachImage(img).raised THEN "failed"
                                    ELSE AttachImage(img).value)}
                   /\ next_id' = next_id + 1
         /\ IF fail = "none" /\ ~AttachImage(img).raised
              THEN /\ result' = [result EXCEPT
                                   ![r].draft_ids = Append(@, next_id),
                                   ![r].imported = @ + 1]
                   /\ event' = [event EXCEPT ![r] = next_id]
                   /\ pc' = [pc EXCEPT ![r] = "log"]
                   /\ UNCHANGED <<outcome, idx, extracted, response>>
              ELSE /\ result' = [result EXCEPT ![r] = OnError(@)]
                   /\ NextPost(r, "draft_failed")
    /\ calls' = [calls EXCEPT ![r] = Bump(@, "event_create")]
    /\ UNCHANGED <<request, reply, args, ret, upstream, config, ledger, business, posts, existing_ids, seen, pred>>

\* InstagramPostLog.objects.create(business=..., instagram_post_id=..., event=event)
\* inside the same try.  The INSERT is refused by the unique constraint
\* (IntegrityError), fails for another reason (db_error), or writes the row;
\* an exception is counted as skipped_error.
LogImport(r) ==
    /\ pc[r] = "log"
    /\ \E db_error \in BOOLEAN :
         IF UniqueViolation(ledger, business[r], posts[r][idx[r]])
           THEN /\ ledger' = ledger
                /\ result' = [result EXCEPT ![r] = OnError(@)]
                /\ NextPost(r, "ledger_conflict")
         ELSE IF db_error
           THEN /\ ledger' = ledger
                /\ result' = [result EXCEPT ![r] = OnError(@)]
                /\ NextPost(r, "ledger_failed")
         ELSE /\ ledger' = ledger \cup {LogRow(business[r], posts[r][idx[r]], event[r], Now(ledger))}
              /\ result' = result
              /\ NextPost(r, "imported")
    /\ calls' = [calls EXCEPT ![r] = Bump(@, "ledger_create")]
    /\ UNCHANGED <<request, reply, args, ret, upstream, config, events, next_id, business, posts, existing_ids, seen, pred>>

(* ------------------------------ the view ------------------------------ *)
\* InstagramImportView.post up to the call of the service: the response it
\* returns at once, or status 0 when it goes on to import_posts
EarlyReply_handle_first(found, premium, handle) ==
    IF ~found
      THEN [status |-> 404, error |-> "No business found for this user"]
    ELSE IF ~handle
      THEN [status |-> 400, error |-> "No Instagram handle configured. Please add your Instagram handle in settings."]
    ELSE IF ~premium
      THEN [status |-> 403, error |-> PremiumError]
    ELSE NoReply

EarlyReply(found, premium, handle) ==
    IF ~found
      THEN [status |-> 404, error |-> "No business found for this user"]
    ELSE IF ~premium
      THEN [status |-> 403, error |-> PremiumError]
    ELSE IF ~handle
      THEN [status |-> 400, error |-> "No Instagram handle configured. Please add your Instagram handle in settings."]
    ELSE NoReply

\* if result.error: return Response({'error': result.error}, status=400)
\* return Response(ImportResultSerializer(result).data)
FinalReply(res) ==
    IF res.error # NoError
      THEN [status |-> 400, error |-> res.error]
      ELSE [status |-> 200, error |-> NoError]

\* POST /import arrives: the business lookup and the two checks of the view
View(r) ==
    /\ pc[r] = "start"
    /\ ~request[r].via_view
    /\ \E b \in Tenants, found \in BOOLEAN, premium \in BOOLEAN, handle \in BOOLEAN :
         /\ request' = [request EXCEPT ![r] = [via_view |-> TRUE, found |-> found,
                                               premium |-> premium, handle |-> handle]]
         /\ business' = [business EXCEPT ![r] = b]
         /\ reply' = [reply EXCEPT ![r] = EarlyReply(found, premium, handle)]
         /\ pc' = [pc EXCEPT ![r] =
                     IF EarlyReply(found, premium, handle) = NoReply
                       THEN "start" ELSE "replied"]
    /\ UNCHANGED <<args, ret, upstream, config, events, ledger, next_id, posts,
                   existing_ids, idx, extracted, response, event, result, outcome,
                   calls, seen, pred>>

\* import_posts has returned to the view: the response built from the result
Respond(r) ==
    /\ pc[r] = "done"
    /\ request[r].via_view
    /\ reply' = [reply EXCEPT ![r] = FinalReply(result[r])]
    /\ pc' = [pc EXCEPT ![r] = "replied"]
    /\ UNCHANGED <<request, args, ret, upstream, config, events, ledger, next_id,
                   business, posts, existing_ids, idx, extracted, response, event,
                   result, outcome, calls, seen, pred>>

Next ==
    \E r \in Runs :
        \/ Gate(r)
        \/ Fetch(r)
        \/ Snapshot(r)
        \/ Dedupe(r)
        \/ Extract(r, RaceLLMOutcomes)
        \/ ConfidenceGate(r)
        \/ CreateDraft(r, RaceImageOutcomes)
        \/ LogImport(r)

Spec == Init /\ [][Next]_vars

\* A single run of import_posts, alone, with every model answer of
\* LLMOutcomes.
NextOne ==
    \/ Gate(1)
    \/ Fetch(1)
    \/ Snapshot(1)
    \/ Dedupe(1)
    \/ Extract(1, LLMOutcomes)
    \/ ConfidenceGate(1)
    \/ CreateDraft(1, ImageOutcomes)
    \/ LogImport(1)

SpecOne == Init /\ [][NextOne]_vars

\* The process that executes run r is terminated: the run stops where it is,
\* what it has committed stays (there is no transaction around the loop).
Crash(r) ==
    /\ pc[r] \notin {"done", "raised", "crashed"}
    /\ pc' = [pc EXCEPT ![r] = "crashed"]
    /\ UNCHANGED <<upstream, config, events, ledger, next_id, business, posts,
                   existing_ids, idx, extracted, response, event, result, outcome,
                   calls, seen, pred, request, reply, args, ret>>

\* Run 1 is terminated at some point; the import is then run again (run 2).
InitCrash ==
    /\ Init
    /\ config = [RAPIDAPI_KEY |-> TRUE, ANTHROPIC_API_KEY |-> TRUE]

Rerun ==
    /\ pc[1] = "crashed"
    /\ \/ Gate(2)
       \/ Fetch(2)
       \/ Snapshot(2)
       \/ Dedupe(2)
       \/ Extract(2, RaceLLMOutcomes)
       \/ ConfidenceGate(2)
       \/ CreateDraft(2, RaceImageOutcomes)
       \/ LogImport(2)

NextCrash ==
    \/ Gate(1)
    \/ Fetch(1)
    \/ Snapshot(1)
    \/ Dedupe(1)
    \/ Extract(1, RaceLLMOutcomes)
    \/ ConfidenceGate(1)
    \/ CreateDraft(1, RaceImageOutcomes)
    \/ LogImport(1)
    \/ Crash(1)
    \/ Rerun

SpecCrash == InitCrash /\ [][NextCrash]_vars

\* A single POST /import (or a single direct call of import_posts).
NextView == View(1) \/ NextOne \/ Respond(1)

SpecView == Init /\ [][NextView]_vars

(* ------------------- the scraper client called directly ---------------- *)
\* hashtags asked for: 'popmap' and 'PopMap'
Hashtags == {<<"p", "m">>, <<"P", "m">>}

InitScraper ==
    /\ upstream \in {Payload("object", [i \in DOMAIN c |-> PostData(i, c[i])]) :
                        c \in SeqsUpTo(CaptionValues, MaxFeed)}
                    \cup BrokenPayloads
    /\ config \in [RAPIDAPI_KEY : BOOLEAN, ANTHROPIC_API_KEY : {FALSE}]
    /\ args \in [hashtag : Hashtags, limit : 0..MaxLimit, http : HttpResponses]
    /\ ret = NoRet
    /\ Constructed

\* ScraperInstagramService().fetch_user_posts_by_hashtag(username, hashtag, limit)
CallFetch ==
    /\ ret.fn = "none"
    /\ ret' = [fn |-> "fetch_user_posts_by_hashtag",
               out |-> fetch_user_posts_by_hashtag(config.RAPIDAPI_KEY, args.http,
                                                   upstream, args.hashtag, args.limit),
               requests |-> Requests(config.RAPIDAPI_KEY)]
    /\ UNCHANGED <<upstream, config, events, ledger, next_id, pc, business, posts,
                   existing_ids, idx, extracted, response, event, result, outcome,
                   calls, seen, pred, request, reply, args>>

\* ScraperInstagramService().health_check()
CallHealthCheck ==
    /\ ret.fn = "none"
    /\ ret' = [fn |-> "health_check",
               out |-> Returned(health_check(config.RAPIDAPI_KEY, args.http)),
               requests |-> Requests(config.RAPIDAPI_KEY)]
    /\ UNCHANGED <<upstream, config, events, ledger, next_id, pc, business, posts,
                   existing_ids, idx, extracted, response, event, result, outcome,
                   calls, seen, pred, request, reply, args>>

NextScraper == CallFetch \/ CallHealthCheck

SpecScraper == InitScraper /\ [][NextScraper]_vars

(* ------------------- _create_draft_event, field by field --------------- *)
\* Dates are day numbers, times minutes after midnight, datetimes minutes
\* after midnight of day 0.
Today == 10                       \* timezone.now().date()
Noon == 720                       \* datetime.strptime("12:00", "%H:%M").time()
TwoHours == 120                   \* timedelta(hours=2)

DateValues == {None, Today - 1, Today, Today + 1}
TimeValues == {None, 0, 600, 1380}            \* 00:00, 10:00, 23:00

\* extracted.location: None ("None"), '' or an address
LocationValues == {"None", "", "12 Main St"}

\* the optional fields of ExtractedEvent that _create_draft_event reads
Fields == [start_date : DateValues, start_time : TimeValues,
           end_date : DateValues, end_time : TimeValues,
           location : LocationValues]

\* Venue rows of the business: name (its alphabetical rank), address, created_at
VenueRows == [name : 1..2, address : {"1 A St", "2 B St"}, created_at : 1..2]

\* timezone.make_aware(datetime.combine(date, time))
combine(date, time) == date * 1440 + time

\* start_date = extracted.start_date or timezone.now().date()
\* start_time = extracted.start_time or 12:00
start_datetime(x, today) ==
    combine(IF x.start_date # None THEN x.start_date ELSE today,
            IF x.start_time # None THEN x.start_time ELSE Noon)

end_datetime_if_both(x, today) ==
    IF x.end_time # None /\ x.end_date # None
      THEN combine(x.end_date, x.end_time)
      ELSE start_datetime(x, today) + TwoHours

\* if extracted.end_time: end_date = extracted.end_date or start_date; ...
\* else: end_datetime = start_datetime + timedelta(hours=2)
end_datetime(x, today) ==
    IF x.end_time # None
      THEN combine(IF x.end_date # None THEN x.end_date
                   ELSE IF x.start_date # None THEN x.start_date ELSE today,
                   x.end_time)
      ELSE start_datetime(x, today) + TwoHours

\* business.venues.first(): Venue.Meta.ordering = ['name'], so a row with the
\* least name; rows of equal name come in an order the database chooses
first(venues) ==
    {v \in venues : \A w \in venues : v.name <= w.name}

\* a string is truthy unless None or ''
Truthy(str) == str \notin {"None", ""}

\* location = extracted.location; if not location and business.venues.exists():
\* location = business.venues.first().address; address=location or "Location TBD"
\* venue is the row .first() returned (only read when there are venues)
address(x, venues, venue) ==
    LET location == IF ~Truthy(x.location) /\ venues # {}
                      THEN venue.address
                      ELSE x.location
    IN  IF Truthy(location) THEN location ELSE "Location TBD"

InitDraft ==
    /\ args \in [extracted : Fields,
                 venues : {vs \in SUBSET VenueRows : Cardinality(vs) <= MaxVenues}]
    /\ ret = NoRet
    /\ upstream = Payload("object", << >>)
    /\ config = [RAPIDAPI_KEY |-> FALSE, ANTHROPIC_API_KEY |-> FALSE]
    /\ Constructed

\* self._create_draft_event(business, post, extracted): the fields given to
\* Event.objects.create
CallCreateDraftEvent ==
    /\ ret.fn = "none"
    /\ \E venue \in IF args.venues = {} THEN {[name |-> 0, address |-> "", created_at |-> 0]}
                    ELSE first(args.venues) :
         ret' = [fn |-> "_create_draft_event",
                 out |-> Returned([start_datetime |-> start_datetime(args.extracted, Today),
                                   end_datetime |-> end_datetime(args.extracted, Today),
                                   address |-> address(args.extracted, args.venues, venue),
                                   status |-> DraftStatus]),
                 requests |-> 0]
    /\ UNCHANGED <<upstream, config, events, ledger, next_id, pc, business, posts,
                   existing_ids, idx, extracted, response, event, result, outcome,
                   calls, seen, pred, request, reply, args>>

SpecDraft == InitDraft /\ [][CallCreateDraftEvent]_vars

(* ---------------------- the extractor called directly ------------------ *)
\* answers of the model that are a well-formed JSON object
ParseTexts ==
    {DatedText(e, [t |-> "number", v |-> 90000], w) :
         e \in BOOLEAN,
         w \in [start_date : WhenJson({Today}), start_time : WhenJson({600}),
                end_date : WhenJson({Today + 1}), end_time : WhenJson({1380})]}

InitParse ==
    /\ args \in [text : ParseTexts]
    /\ ret = NoRet
    /\ upstream = Payload("object", << >>)
    /\ config = [RAPIDAPI_KEY |-> FALSE, ANTHROPIC_API_KEY |-> TRUE]
    /\ Constructed

\* EventExtractor().extract(caption, business), the model answering args.text
CallExtract ==
    /\ ret.fn = "none"
    /\ ret' = [fn |-> "extract",
               out |-> extract(config.ANTHROPIC_API_KEY, "ok", Answer(args.text)),
               requests |-> 1]
    /\ UNCHANGED <<upstream, config, events, ledger, next_id, pc, business, posts,
                   existing_ids, idx, extracted, response, event, result, outcome,
                   calls, seen, pred, request, reply, args>>

SpecParse == InitParse /\ [][CallExtract]_vars

(* --------------------------- GET /import/history ----------------------- *)
\* ledgers of n rows of tenant 1 followed by m rows of tenant 2, written one
\* after the other
HistoryLedger(n, m) ==
    {LogRow(1, i, i, i) : i \in 1..n} \cup {LogRow(2, i, n + i, n + i) : i \in 1..m}

Range(s) == {s[i] : i \in DOMAIN s}

\* the sets of k of the numbers 1..n
Choose(n, k) == {X \in {Range(s) : s \in [1..k -> 1..n]} : Cardinality(X) = k}

\* QuerySet[:limit] of a queryset without order_by, the model having no
\* Meta.ordering: the SQL is SELECT ... LIMIT limit without ORDER BY, and the
\* database may answer with any limit of the rows
Slice(rows, limit) ==
    IF Cardinality(rows) <= limit THEN {rows}
    ELSE LET n == Cardinality(rows)
             nth(i) == CHOOSE l \in rows :
                           Cardinality({k \in rows : k.imported_at < l.imported_at}) = i - 1
         IN  {rows \ {nth(i) : i \in X} : X \in Choose(n, n - limit)}

InitHistory ==
    /\ args \in [found : BOOLEAN, business : Tenants]
    /\ ret = NoRet
    /\ upstream = Payload("object", << >>)
    /\ config = [RAPIDAPI_KEY |-> TRUE, ANTHROPIC_API_KEY |-> TRUE]
    /\ \E n \in (HistoryLimit - 1)..MaxRows, m \in 0..MaxOther :
           /\ ledger = HistoryLedger(n, m)
           /\ events = {EventRow(l.event, l.business, "pending", l.instagram_post_id, "none") :
                            l \in HistoryLedger(n, m)}
           /\ next_id = n + m + 1
    /\ pc = [r \in Runs |-> "start"]
    /\ business = [r \in Runs |-> 1]
    /\ posts = [r \in Runs |-> << >>]
    /\ existing_ids = [r \in Runs |-> {}]
    /\ idx = [r \in Runs |-> 1]
    /\ extracted = [r \in Runs |-> NoExtracted]
    /\ response = [r \in Runs |-> NoResponse]
    /\ event = [r \in Runs |-> 0]
    /\ result = [r \in Runs |-> ImportResult]
    /\ outcome = [r \in Runs |-> << >>]
    /\ calls = [r \in Runs |-> NoCalls]
    /\ seen = [r \in Runs |-> NoSeen]
    /\ pred = [r \in Runs |-> {}]
    /\ request = [r \in Runs |-> NoRequest]
    /\ reply = [r \in Runs |-> NoReply]

\* InstagramImportHistoryView.get: 404 without a business, else the rows of
\* filter(business=business)[:50]
History ==
    /\ ret.fn = "none"
    /\ \E logs \in Slice({l \in ledger : l.business = args.business}, HistoryLimit) :
           ret' = [fn |-> "history",
                   out |-> Returned(IF args.found
                                      THEN [status |-> 200, logs |-> logs]
                                      ELSE [status |-> 404, logs |-> {}]),
                   requests |-> 0]
    /\ UNCHANGED <<upstream, config, events, ledger, next_id, pc, business, posts,
                   existing_ids, idx, extracted, response, event, result, outcome,
                   calls, seen, pred, request, reply, args>>

SpecHistory == InitHistory /\ [][History]_vars

(* ------------------------------ properties ----------------------------- *)
Finished(r) == pc[r] = "done" /\ result[r].error = NoError

DraftsOf(b, p) == {e \in events : e.host_business = b /\ e.post = p}

\* r1 had returned before r2 began, both for the same tenant, and both went
\* through their whole loop over the (same, unchanged) upstream posts
SecondRun(r1, r2) ==
    /\ r1 \in pred[r2]
    /\ business[r1] = business[r2]
    /\ Finished(r1)
    /\ Finished(r2)

\* C1 (as claimed): a second run over the unchanged upstream posts returns
\* imported = 0 and skipped_duplicate = N, N the number of posts the first
\* run imported, and writes no draft event and no ledger entry.
C1_SecondRunImportsNothing ==
    \A r1, r2 \in Runs :
        SecondRun(r1, r2) =>
            /\ result[r2].imported = 0
            /\ result[r2].skipped_duplicate = result[r1].imported
            /\ calls[r2].event_create = 0
            /\ calls[r2].ledger_create = 0

\* positions of the posts whose id is in the tenant's ledger when r returns:
\* r wrote the entry, or was refused because the entry existed
Recorded(r) ==
    {i \in DOMAIN outcome[r] : outcome[r][i] \in {"imported", "ledger_conflict"}}

\* C1 (amended): in a second run over the unchanged upstream posts every post
\* for which the first run left a ledger entry is counted as
\* skipped_duplicate and gets no new draft and no new ledger entry; when the
\* first run recorded every fetched post (N = number of posts) the second run
\* returns imported = 0, skipped_duplicate = N, no draft ids, and writes
\* nothing.
C1_SecondRunSkipsRecorded ==
    \A r1, r2 \in Runs :
        SecondRun(r1, r2) =>
            /\ \A i \in Recorded(r1) : outcome[r2][i] = "duplicate"
            /\ result[r2].skipped_duplicate >= Cardinality(Recorded(r1))
            /\ calls[r2].event_create <= Len(posts[r2]) - Cardinality(Recorded(r1))
            /\ calls[r2].ledger_create <= Len(posts[r2]) - Cardinality(Recorded(r1))
            /\ Count(outcome[r1], "imported") = Len(posts[r1]) =>
                   /\ result[r2].imported = 0
                   /\ result[r2].skipped_duplicate = result[r1].imported
                   /\ result[r2].draft_ids = << >>
                   /\ calls[r2].event_create = 0
                   /\ calls[r2].ledger_create = 0

C1_Witness ==
    \E r1, r2 \in Runs :
        /\ SecondRun(r1, r2)
        /\ Len(posts[r1]) >= 2
        /\ Count(outcome[r1], "imported") = Len(posts[r1])
        /\ result[r1].imported = Len(posts[r1])
        /\ result[r2].skipped_duplicate = Len(posts[r1])

\* both runs are for tenant b, fetched p once, did not find it in their
\* ledger snapshot, let it pass the confidence gate and got a draft for it
BothImport(r1, r2, b, p) ==
    /\ r1 # r2
    /\ Finished(r1) /\ Finished(r2)
    /\ business[r1] = b /\ business[r2] = b
    /\ \A r \in {r1, r2} :
          /\ Count(posts[r], p) = 1
          /\ p \notin existing_ids[r]
          /\ \A i \in DOMAIN posts[r] :
                posts[r][i] = p => outcome[r][i] \in {"imported", "ledger_conflict"}

\* C2: when two concurrent runs of a tenant both fetch the same post that was
\* never imported and both pass the pre-filter, exactly one draft Event exists
\* for that post once both runs have finished.
C2_RaceOneDraft ==
    \A r1, r2 \in Runs, b \in Tenants, p \in PostIds :
        BothImport(r1, r2, b, p) => Cardinality(DraftsOf(b, p)) = 1

\* C3: the ledger never holds two rows with the same (business,
\* instagram_post_id), and a row once written is never replaced or removed.
LedgerUnique ==
    \A l1, l2 \in ledger :
        (l1.business = l2.business /\ l1.instagram_post_id = l2.instagram_post_id)
            => l1 = l2

C3_LedgerUniqueness == [](LedgerUnique) /\ [][ledger \subseteq ledger']_vars

\* a second record for an existing pair was attempted and refused
C3_Witness ==
    \E r \in Runs :
        /\ "ledger_conflict" \in Range(outcome[r])
        /\ Distinct(posts[r])
        /\ \A p \in Range(posts[r]) :
               Cardinality({l \in ledger : l.business = business[r]
                                           /\ l.instagram_post_id = p}) <= 1

\* C4: a run whose ledger record for a post is refused because a concurrent
\* run recorded the same (tenant, post id) counts that post in
\* skipped_duplicate, not in skipped_error or imported, lists no draft id for
\* it, and goes on with the next post.
C4_RaceCountedDuplicate ==
    \A r \in Runs :
        (Finished(r) /\ Distinct(posts[r]) /\ "ledger_failed" \notin Range(outcome[r])) =>
            /\ Len(outcome[r]) = Len(posts[r])
            /\ result[r].skipped_duplicate =
                   Count(outcome[r], "duplicate") + Count(outcome[r], "ledger_conflict")
            /\ result[r].skipped_error = Count(outcome[r], "draft_failed")
            /\ result[r].imported = Count(outcome[r], "imported")
            /\ Len(result[r].draft_ids) = Count(outcome[r], "imported")

\* C5: a run over distinct, not yet imported, accepted posts in which draft
\* creation raises for some of them still processes every post, returns
\* imported = number of posts whose draft was created and skipped_error =
\* number of posts whose draft creation raised, and the draft of every
\* succeeding post exists.
OnlyDraftFailures(r) ==
    /\ Finished(r)
    /\ Distinct(posts[r])
    /\ Range(posts[r]) \cap existing_ids[r] = {}
    /\ \A i \in DOMAIN outcome[r] : outcome[r][i] \in {"imported", "draft_failed"}

C5_IsolatedFailure ==
    \A r \in Runs :
        OnlyDraftFailures(r) =>
            /\ Len(outcome[r]) = Len(posts[r])
            /\ result[r].imported = Count(outcome[r], "imported")
            /\ result[r].skipped_error = Count(outcome[r], "draft_failed")
            /\ result[r].skipped_duplicate = 0
            /\ result[r].skipped_not_event = 0
            /\ Len(result[r].draft_ids) = result[r].imported
            /\ \A i \in DOMAIN posts[r] :
                   outcome[r][i] = "imported" =>
                       \E e \in DraftsOf(business[r], posts[r][i]) :
                           e.id \in Range(result[r].draft_ids)

C5_Witness ==
    \E r \in Runs :
        /\ OnlyDraftFailures(r)
        /\ outcome[r] = <<"draft_failed", "imported">>
        /\ result[r].imported = 1
        /\ result[r].skipped_error = 1

\* C6: a run whose tenant lacks the premium entitlement or has no Instagram
\* handle returns at once with the matching error (the subscription one when
\* both fail), every counter 0 and no draft ids, and issues no fetch, no
\* extraction, no event creation and no ledger write.
C6_GateNoSideEffects ==
    \A r \in Runs :
        (pc[r] # "start" /\ (~seen[r].premium \/ ~seen[r].handle)) =>
            /\ pc[r] = "done"
            /\ result[r] = [ImportResult EXCEPT !.error =
                               IF ~seen[r].premium THEN PremiumError ELSE HandleError]
            /\ calls[r] = NoCalls
            /\ outcome[r] = << >>

C6_Witness ==
    \E r \in Runs :
        /\ pc[r] = "done" /\ ~seen[r].premium /\ ~seen[r].handle
        /\ result[r].error = PremiumError
        /\ calls[r].fetch = 0

\* the message of the error the fetch ends with, by cause
FetchFails(key, http) == ~key \/ http.kind = "network_error" \/ http.status # 200

FetchMessage(key, http) ==
    CASE ~key                          -> "RAPIDAPI_KEY not configured"
      [] key /\ http.kind = "network_error" -> "Network error: <e>"
      [] key /\ http.kind = "status" /\ http.status = 429 -> "Rate limited by Instagram API"
      [] key /\ http.kind = "status" /\ http.status = 404 -> "User @<username> not found"
      [] OTHER                         -> "API error: <status_code>"

\* C7: when the fetch fails (rate limit, unknown account, service error) the
\* run returns with exactly that error's message, every counter 0 and no
\* draft ids; nothing is extracted, created or recorded, and the fetch was
\* issued once.
C7_FetchFailureTerminal ==
    \A r \in Runs :
        (seen[r].http # NoHttp /\ FetchFails(config.RAPIDAPI_KEY, seen[r].http)) =>
            /\ pc[r] = "done"
            /\ result[r] = [ImportResult EXCEPT !.error =
                               FetchMessage(config.RAPIDAPI_KEY, seen[r].http)]
            /\ calls[r] = [NoCalls EXCEPT !.fetch = 1]
            /\ outcome[r] = << >>

C7_Witness ==
    \E r \in Runs :
        /\ pc[r] = "done"
        /\ seen[r].http = [kind |-> "status", status |-> 429]
        /\ result[r].error = "Rate limited by Instagram API"
        /\ calls[r].fetch = 1

\* C8: a post whose extraction has is_event = true goes on to draft creation
\* if and only if confidence >= confidence_threshold; otherwise, and whenever
\* is_event = false, it is counted as skipped_not_event.
C8_ConfidenceBoundary ==
    [][\A r \in Runs :
          (pc[r] = "gate" /\ pc'[r] # "gate") =>
              IF extracted[r].is_event /\ FloatGe(extracted[r].confidence, Threshold)
                THEN /\ pc'[r] = "create"
                     /\ result'[r] = result[r]
                ELSE /\ pc'[r] = "loop"
                     /\ result'[r] = Bump(result[r], "skipped_not_event")]_vars

\* the answer cannot be parsed into the expected shape
Malformed(text) ==
    \/ text.fence = "no_newline"
    \/ text.body # "object"
    \/ text.confidence.t \in {"null", "bad_string"}

\* C9: whenever the model's answer cannot be parsed into the expected shape,
\* extract returns ExtractedEvent(is_event=False, confidence=0.0) and raises
\* nothing.
C9_FailClosed ==
    \A r \in Runs :
        (response[r].call = "ok" /\ Malformed(response[r].text)) =>
            /\ pc[r] = "gate"
            /\ extracted[r] = ExtractedEvent(FALSE, 0)

C9_Witness ==
    \E r \in Runs :
        /\ pc[r] = "gate"
        /\ response[r].call = "ok"
        /\ response[r].text.fence = "no_newline"
        /\ extracted[r] = ExtractedEvent(FALSE, 0)
        /\ idx[r] = 2

\* C10: every Event row the pipeline has written has status 'pending'.
C10_AlwaysPending == \A e \in events : e.status = "pending"

C10_Witness ==
    /\ Cardinality(events) >= 2
    /\ \E r \in Runs : Finished(r) /\ result[r].imported >= 1

(* ---------------------- properties of the scraper ---------------------- *)
FetchReturned == ret.fn = "fetch_user_posts_by_hashtag" /\ ~ret.out.raised

ReturnedIds == [i \in DOMAIN ret.out.value |-> ret.out.value[i].post_id]

\* the same letter, whatever the case
SameLetter(a, b) ==
    a = b \/ {a, b} \in {{"p", "P"}, {"m", "M"}, {"x", "X"}}

\* the caption is a string in which, somewhere, '#' is followed by the
\* letters of the hashtag, case ignored
TagInCaption(caption, hashtag) ==
    /\ caption.t = "string"
    /\ \E i \in 1..Len(caption.s) :
          /\ caption.s[i] = "#"
          /\ i + Len(hashtag) <= Len(caption.s)
          /\ \A k \in 1..Len(hashtag) : SameLetter(caption.s[i + k], hashtag[k])

\* C11: a post matches iff its caption contains '#' followed by the hashtag,
\* case ignored on both sides; a missing or null caption never matches.  When
\* the limit cuts nothing off, the posts returned are exactly those posts.
C11_CaseInsensitiveMatch ==
    (FetchReturned /\ args.limit >= Len(upstream.data)) =>
        /\ Range(ReturnedIds) =
               {i \in DOMAIN upstream.data :
                    TagInCaption(upstream.data[i].caption, args.hashtag)}
        /\ \A i \in DOMAIN upstream.data :
               upstream.data[i].caption.t \in {"missing", "null"} =>
                   i \notin Range(ReturnedIds)

C11_Witness ==
    /\ FetchReturned
    /\ args.hashtag = <<"p", "m">>
    /\ Len(upstream.data) = 2
    /\ upstream.data[1].caption = StringCaption(<<"#", "P", "m">>)
    /\ upstream.data[2].caption.t = "null"
    /\ ReturnedIds = <<1>>

\* C12: the call returns at most `limit` posts; each of them is a post of the
\* upstream answer whose caption carries the hashtag, and they come in the
\* upstream order.
C12_AtMostLimitInOrder ==
    FetchReturned =>
        /\ Len(ret.out.value) <= args.limit
        /\ \A i \in DOMAIN ret.out.value :
              /\ ReturnedIds[i] \in DOMAIN upstream.data
              /\ TagInCaption(upstream.data[ReturnedIds[i]].caption, args.hashtag)
              /\ ret.out.value[i].caption = upstream.data[ReturnedIds[i]].caption.s
        /\ \A i, j \in DOMAIN ret.out.value : i < j => ReturnedIds[i] < ReturnedIds[j]

C12_Witness ==
    /\ FetchReturned
    /\ args.limit = 1
    /\ Len(upstream.data) = 3
    /\ \A i \in 2..3 : TagInCaption(upstream.data[i].caption, args.hashtag)
    /\ ~TagInCaption(upstream.data[1].caption, args.hashtag)
    /\ ReturnedIds = <<2>>

\* the error kind each cause of failure is to be reported as
ErrorKind(key, http) ==
    CASE key /\ http.kind = "status" /\ http.status = 429 -> "RateLimitError"
      [] key /\ http.kind = "status" /\ http.status = 404 -> "UserNotFoundError"
      [] OTHER -> "InstagramServiceError"

\* C13: a failing fetch raises RateLimitError on status 429, UserNotFoundError
\* on 404 and InstagramServiceError for any other non-200 status, network
\* error or malformed payload; it never raises anything else.
C13_DistinguishedErrors ==
    (ret.fn = "fetch_user_posts_by_hashtag" /\ ret.out.raised) =>
        ret.out.cls = ErrorKind(config.RAPIDAPI_KEY, args.http)

\* C14: with no API key fetch_user_posts_by_hashtag raises
\* InstagramServiceError and health_check returns False, and neither issues a
\* request.
C14_MissingKeyFailsFast ==
    ~config.RAPIDAPI_KEY =>
        /\ ret.fn = "fetch_user_posts_by_hashtag" =>
              /\ ret.out.raised
              /\ ret.out.cls = "InstagramServiceError"
              /\ ret.requests = 0
        /\ ret.fn = "health_check" =>
              /\ ret.out.value = FALSE
              /\ ret.requests = 0

C14_Witness ==
    /\ ~config.RAPIDAPI_KEY
    /\ ret.fn = "fetch_user_posts_by_hashtag"
    /\ args.http = [kind |-> "status", status |-> 200]
    /\ Len(upstream.data) >= 1
    /\ TagInCaption(upstream.data[1].caption, args.hashtag)
    /\ ret.out.msg = "RAPIDAPI_KEY not configured"
    /\ ret.requests = 0

(* ------------------------ properties of the view ----------------------- *)
\* failures of the fetch other than the account not being found
ServiceFailures ==
    {"RAPIDAPI_KEY not configured", "Network error: <e>",
     "Rate limited by Instagram API", "API error: <status_code>"}

\* C15: when the import run of a POST /import ends with a service failure
\* (rate limit, network error, missing API key, upstream 5xx) the endpoint
\* answers HTTP 200 and the body carries the failure reason in its error
\* field.
C15_SoftFail ==
    \A r \in Runs :
        (request[r].via_view /\ pc[r] = "replied" /\ result[r].error \in ServiceFailures) =>
            /\ reply[r].status = 200
            /\ reply[r].error = result[r].error

\* C16: POST /import answers 403 when the tenant fails the entitlement check
\* (also when it has no handle either) and 400 when an entitled tenant has no
\* Instagram handle; in both cases import_posts is not called: nothing is
\* fetched, extracted, created or recorded and no ImportResult is filled.
C16_ViewGate ==
    \A r \in Runs :
        (request[r].via_view /\ request[r].found
            /\ (~request[r].premium \/ ~request[r].handle)) =>
            /\ pc[r] = "replied"
            /\ reply[r].status = IF ~request[r].premium THEN 403 ELSE 400
            /\ result[r] = ImportResult
            /\ calls[r] = NoCalls
            /\ seen[r] = NoSeen
            /\ events = {} /\ ledger = {}

C16_Witness ==
    \E r \in Runs :
        /\ request[r].via_view /\ request[r].found
        /\ ~request[r].premium /\ ~request[r].handle
        /\ reply[r].status = 403
        /\ calls[r].fetch = 0

(* ----------------------- shape of the ImportResult --------------------- *)
PastFetch(r) == pc[r] \in {"snapshot", "loop", "extract", "gate", "create", "log"}

HasReturned(r) == pc[r] \in {"done", "replied"}

\* C17: an ImportResult with an error has every counter 0 and no draft ids,
\* and it is a returned one; once a run is past the gate and the fetch its
\* result has no error, whatever happens to the single posts.
C17_ErrorMeansNoCounts ==
    \A r \in Runs :
        /\ result[r].error # NoError =>
              /\ result[r] = [ImportResult EXCEPT !.error = result[r].error]
              /\ HasReturned(r)
              /\ outcome[r] = << >>
        /\ (PastFetch(r) \/ (HasReturned(r) /\ calls[r].fetch = 1
                              /\ ~FetchFails(config.RAPIDAPI_KEY, seen[r].http))) =>
              result[r].error = NoError

\* every post of a run failed individually and the result has no error
C17_Witness ==
    \E r \in Runs :
        /\ pc[r] = "done"
        /\ Len(posts[r]) = 2
        /\ outcome[r] = <<"draft_failed", "ledger_failed">>
        /\ result[r].skipped_error = 2
        /\ result[r].error = NoError

(* -------------------- properties of the draft's fields ----------------- *)
Draft == ret.out.value

DraftMade == ret.fn = "_create_draft_event"

\* C18 (as claimed): the draft's end_datetime is the extracted end date
\* combined with the extracted end time when both were extracted, and
\* start_datetime + 2 hours in every other case.
C18_EndIfBothElseTwoHours ==
    DraftMade =>
        Draft.end_datetime =
            IF args.extracted.end_date # None /\ args.extracted.end_time # None
              THEN args.extracted.end_date * 1440 + args.extracted.end_time
              ELSE Draft.start_datetime + 120

\* the day the draft starts on
StartDay == Draft.start_datetime \div 1440

\* C18 (amended): the draft's end_datetime is the extracted end time on the
\* extracted end date when both were extracted, the extracted end time on the
\* day the draft starts when only the end time was extracted, and
\* start_datetime + 2 hours when no end time was extracted.
C18_EndFromEndTime ==
    DraftMade =>
        Draft.end_datetime =
            CASE args.extracted.end_time # None /\ args.extracted.end_date # None ->
                     args.extracted.end_date * 1440 + args.extracted.end_time
              [] args.extracted.end_time # None /\ args.extracted.end_date = None ->
                     StartDay * 1440 + args.extracted.end_time
              [] OTHER -> Draft.start_datetime + 120

\* only the end time was extracted, and it is not two hours after the start
C18_Witness ==
    /\ DraftMade
    /\ args.extracted.end_time = 1380 /\ args.extracted.end_date = None
    /\ args.extracted.start_date = Today + 1 /\ args.extracted.start_time = 600
    /\ Draft.end_datetime = (Today + 1) * 1440 + 1380

\* C19: the draft's address is the extracted location when there is one;
\* else the address of the business's most recently saved venue when it has
\* venues; else the placeholder.
C19_LocationFallback ==
    DraftMade =>
        IF Truthy(args.extracted.location)
          THEN Draft.address = args.extracted.location
        ELSE IF args.venues # {}
          THEN Draft.address \in
                   {v.address : v \in {u \in args.venues :
                                          \A w \in args.venues : u.created_at >= w.created_at}}
        ELSE Draft.address = "Location TBD"

(* --------------------------- image attachment -------------------------- *)
ErrorOutcomes == {"draft_failed", "ledger_conflict", "ledger_failed"}

\* C20: a draft whose image could not be downloaded or saved exists without
\* an image, its id is in the draft_ids of the run that made it and counted
\* in imported, the run's skipped_error counts only the posts whose draft
\* creation or ledger write raised, and the post's ledger entry is written
\* (unless that write itself fails).
C20_ImageBestEffort ==
    \A e \in events :
        e.image = "failed" =>
            \E r \in Runs :
                /\ e.id \in Range(result[r].draft_ids)
                /\ result[r].imported = Len(result[r].draft_ids)
                /\ result[r].skipped_error =
                       Cardinality({i \in DOMAIN outcome[r] : outcome[r][i] \in ErrorOutcomes})
                /\ \/ pc[r] = "log" /\ event[r] = e.id
                   \/ \E l \in ledger : l.event = e.id /\ l.instagram_post_id = e.post
                   \/ \E i \in DOMAIN outcome[r] :
                         /\ posts[r][i] = e.post
                         /\ outcome[r][i] \in {"ledger_conflict", "ledger_failed"}

C20_Witness ==
    \E r \in Runs, e \in events :
        /\ pc[r] = "done"
        /\ e.image = "failed"
        /\ outcome[r] = <<"imported">>
        /\ result[r].imported = 1 /\ result[r].skipped_error = 0
        /\ result[r].draft_ids = <<e.id>>
        /\ \E l \in ledger : l.event = e.id

(* ------------------------- isolation of extraction --------------------- *)
\* C21: whatever fails while one post is extracted (the model call, a
\* missing model API key, the categories query), the step ends at the
\* confidence gate with a not-an-event extraction, the post is counted as
\* skipped_not_event and the loop goes on; nothing is raised out of
\* import_posts.
C21_ExtractionIsolated ==
    [][\A r \in Runs :
          (pc[r] = "extract" /\ pc'[r] # "extract") =>
              /\ pc'[r] = "gate"
              /\ (response'[r].call # "ok" =>
                      /\ extracted'[r] = ExtractedEvent(FALSE, 0)
                      /\ Rejected(extracted'[r], Threshold))]_vars

(* ----------------------- date and time of the answer ------------------- *)
\* what a field is to become: the value of an ISO string, None otherwise
Parsed(j) == IF j.t = "iso" THEN j.v ELSE None

\* C22: when the model's answer is a valid JSON object, every date or time
\* field that does not parse (a malformed string, a number) is None in the
\* ExtractedEvent, the fields that parse keep their value, and is_event and
\* confidence are those of the answer.
C22_BadFieldBecomesNull ==
    ret.fn = "extract" =>
        /\ ~ret.out.raised
        /\ ret.out.value =
               DatedEvent(args.text.is_event, args.text.confidence.v,
                          Parsed(args.text.when.start_date),
                          Parsed(args.text.when.start_time),
                          Parsed(args.text.when.end_date),
                          Parsed(args.text.when.end_time))

(* ------------------------------- history ------------------------------- *)
\* the n rows with the greatest imported_at
Latest(rows, n) ==
    {l \in rows : Cardinality({k \in rows : k.imported_at > l.imported_at}) < n}

\* C23: the history of a tenant with more than 50 ledger entries is the 50
\* entries with the greatest imported_at, none of them of another tenant.
C23_LastFifty ==
    (ret.fn = "history" /\ ret.out.value.status = 200
        /\ Cardinality({l \in ledger : l.business = args.business}) > HistoryLimit) =>
        /\ ret.out.value.logs =
               Latest({l \in ledger : l.business = args.business}, HistoryLimit)
        /\ \A l \in ret.out.value.logs : l.business = args.business

(* ---------------------------- crash recovery --------------------------- *)
LogsOf(b, p) == {l \in ledger : l.business = b /\ l.instagram_post_id = p}

\* no draft creation and no ledger write of run r raised
NoFailure(r) ==
    \A i \in DOMAIN outcome[r] :
        outcome[r][i] \notin {"draft_failed", "ledger_failed", "ledger_conflict"}

\* C24: run 1 was terminated at some point and the import was run again to
\* completion for the same tenant over the same posts (distinct ids, no
\* draft creation or ledger write raising): every post that has a draft has
\* exactly one draft and exactly one ledger entry.
C24_CrashRecovery ==
    (pc[1] = "crashed" /\ Finished(2) /\ business[2] = business[1]
        /\ Distinct(posts[2]) /\ NoFailure(1) /\ NoFailure(2)) =>
        \A p \in Range(posts[2]) :
            DraftsOf(business[2], p) # {} =>
                /\ Cardinality(DraftsOf(business[2], p)) = 1
                /\ Cardinality(LogsOf(business[2], p)) = 1

(* --------------------------- order of the steps ------------------------ *)
\* the source is called at most once, and only after the gate passed; when
\* the run has returned from the loop, every post that was not skipped as a
\* duplicate had exactly one extraction call
FetchOnceExtractOnce(r) ==
    /\ calls[r].fetch <= 1
    /\ calls[r].fetch = 1 => GateError(seen[r].premium, seen[r].handle) = NoError
    /\ PastFetch(r) => calls[r].fetch = 1
    /\ (pc[r] = "done" /\ calls[r].fetch = 1 /\ result[r].error = NoError) =>
          /\ Len(outcome[r]) = Len(posts[r])
          /\ calls[r].extract = Len(posts[r]) - Count(outcome[r], "duplicate")

\* an extraction call is for a post whose id is not in the tenant's ledger
ExtractAfterDedupe(r) ==
    calls'[r].extract # calls[r].extract =>
        /\ calls'[r].extract = calls[r].extract + 1
        /\ LogsOf(business[r], posts[r][idx[r]]) = {}

\* a draft and a ledger record are made for a post that passed the gate
WriteAfterGate(r) ==
    (calls'[r].event_create # calls[r].event_create
        \/ calls'[r].ledger_create # calls[r].ledger_create) =>
        /\ calls[r].extract > 0
        /\ ~Rejected(extracted[r], Threshold)

\* C25: one fetch per run, after the gate; no extraction call for a post
\* whose id is in the tenant's ledger; one extraction call for every other
\* post; draft creation and ledger record only after the confidence gate.
C25_StepOrder ==
    /\ [](\A r \in Runs : FetchOnceExtractOnce(r))
    /\ [][\A r \in Runs : ExtractAfterDedupe(r) /\ WriteAfterGate(r)]_vars

(* -------------------------- counters and drafts ------------------------ *)
Counted(res) ==
    res.imported + res.skipped_duplicate + res.skipped_not_event + res.skipped_error

\* C26: a run that went through the loop returns counters whose sum is the
\* number of fetched posts.
C26_CounterConservation ==
    \A r \in Runs :
        (Finished(r) /\ calls[r].fetch = 1) => Counted(result[r]) = Len(posts[r])

\* events created by run r: those its calls of Event.objects.create wrote
LogsOfEvent(e) == {l \in ledger : l.event = e.id}

\* C27: after a completed run, draft_ids has as many ids as imported counts,
\* every draft event has exactly one ledger entry, of its tenant, that
\* references it, and every ledger entry references a draft event of the
\* same tenant and post.
C27_NoOrphanDrafts ==
    \A r \in Runs :
        Finished(r) =>
            /\ Len(result[r].draft_ids) = result[r].imported
            /\ \A e \in events :
                   /\ Cardinality(LogsOfEvent(e)) = 1
                   /\ \A l \in LogsOfEvent(e) :
                          l.business = e.host_business /\ l.instagram_post_id = e.post
            /\ \A l \in ledger :
                   \E e \in events :
                       e.id = l.event /\ e.host_business = l.business
                           /\ e.post = l.instagram_post_id

\* C28: when one fetch returns an id more than once and the post is accepted,
\* the run makes one draft and one ledger entry for it and counts the later
\* occurrences as skipped_duplicate.
C28_InBatchDuplicates ==
    \A r \in Runs :
        Finished(r) =>
            \A i \in DOMAIN posts[r] :
                (outcome[r][i] = "imported" /\ \A j \in 1..(i - 1) : posts[r][j] # posts[r][i]) =>
                    /\ Cardinality(DraftsOf(business[r], posts[r][i])) = 1
                    /\ Cardinality(LogsOf(business[r], posts[r][i])) = 1
                    /\ \A k \in DOMAIN posts[r] :
                           (k > i /\ posts[r][k] = posts[r][i]) => outcome[r][k] = "duplicate"

(* ------------------------------ time window ---------------------------- *)
\* C29: the draft's end_datetime is not earlier than its start_datetime,
\* whichever of the four date and time fields were extracted.
C29_EndNotBeforeStart ==
    DraftMade => Draft.end_datetime >= Draft.start_datetime

(* ---------------------------- tenant isolation ------------------------- *)
\* the ids run r dedupes against are ids of its tenant's ledger, and so are
\* the posts it skipped as duplicates
OwnDuplicates(r) ==
    /\ \A p \in existing_ids[r] : LogsOf(business[r], p) # {}
    /\ \A i \in DOMAIN outcome[r] :
           outcome[r][i] = "duplicate" => LogsOf(business[r], posts[r][i]) # {}

\* a step of run r that writes adds rows of its tenant and removes or
\* changes no row
OwnWrites(r) ==
    calls'[r] # calls[r] =>
        /\ events \subseteq events'
        /\ ledger \subseteq ledger'
        /\ \A e \in events' \ events : e.host_business = business[r]
        /\ \A l \in ledger' \ ledger : l.business = business[r]

\* C30: a run dedupes against its own tenant's ledger only, so an id in
\* another tenant's ledger is not skipped as a duplicate, and a run creates
\* drafts and ledger entries for its own tenant only, leaving every other row
\* as it was.
C30_TenantIsolation ==
    /\ [](\A r \in Runs : OwnDuplicates(r))
    /\ [][\A r \in Runs : OwnWrites(r)]_vars

\* a run for tenant A imported a post and returned; a run for tenant B that
\* started afterwards has imported the same post
C30_Witness ==
    \E r \in Runs : \E q \in pred[r] :
        /\ Finished(r)
        /\ business[q] # business[r]
        /\ \E i \in DOMAIN outcome[r] : \E j \in DOMAIN outcome[q] :
               /\ posts[q][j] = posts[r][i]
               /\ outcome[q][j] = "imported"
               /\ outcome[r][i] = "imported"
               /\ LogsOf(business[q], posts[r][i]) # {}
               /\ LogsOf(business[r], posts[r][i]) # {}

====
